---- MODULE Spec2Model ----
(***************************************************************************)
(* A model of src/lang.cpp: the lexer (gettok), the recursive-descent      *)
(* parser with precedence climbing, the code generator that lowers the AST *)
(* into an LLVM module, and the driver loop (MainLoop).                    *)
(*                                                                         *)
(* The parser, the code generator and the driver are modelled over a token *)
(* stream (toks, with currTok the token at index pos); gettok itself is    *)
(* modelled over a character stream in the specification LexSpec.          *)
(***************************************************************************)
EXTENDS Integers, Sequences, FiniteSets, TLC

VARIABLES
  toks,          \* the token stream gettok delivers (each with IdentifierStr / NumVal)
  pos,           \* index in toks of currTok
  TheModule,     \* the functions of the llvm::Module, in creation order
  NamedValues,   \* the scope table: name -> Value
  nextId,        \* identity of the next Function object allocated
  LastUnique,    \* the module symbol table's counter for uniquified names
  pc,            \* "loop": in MainLoop; "done": MainLoop returned; "aborted"
  last,          \* what the last iteration of MainLoop did
  chars,         \* the character stream on stdin (LexSpec)
  cpos,          \* number of characters getchar() has delivered
  LastChar,      \* gettok's static LastChar
  IdentifierStr, \* the lexer's identifier buffer
  NumVal,        \* the lexer's numeric value
  lexpc,         \* where gettok is: "idle", "comment" or "eof"
  lexTok         \* the token gettok returned last

vars == <<toks, pos, TheModule, NamedValues, nextId, LastUnique, pc, last,
          chars, cpos, LastChar, IdentifierStr, NumVal, lexpc, lexTok>>

parseVars == <<toks, pos, TheModule, NamedValues, nextId, LastUnique, pc, last>>
lexVars == <<chars, cpos, LastChar, IdentifierStr, NumVal, lexpc, lexTok>>

Null == [k |-> "null"]

Range(s) == {s[i] : i \in 1..Len(s)}

(***************************************************************************)
(* Tokens.  A token is its kind t, the identifier text s (IdentifierStr at *)
(* the time gettok returned it, or the character itself for a character    *)
(* token) and the number v (NumVal at that time).                          *)
(***************************************************************************)
tok_eof == [t |-> "eof", s |-> "", v |-> 0]
tok_func == [t |-> "func", s |-> "func", v |-> 0]
tok_extern == [t |-> "extern", s |-> "extern", v |-> 0]
tok_identifier(s) == [t |-> "id", s |-> s, v |-> 0]
tok_number(v) == [t |-> "num", s |-> "", v |-> v]
tok_char(c) == [t |-> "ch", s |-> c, v |-> 0]

\* currTok when the cursor is at p: past the end gettok keeps returning tok_eof
currTok(p) == IF p <= Len(toks) THEN toks[p] ELSE tok_eof

\* getNextToken: advance the cursor by one token (it stays on tok_eof)
getNextToken(p) == IF p <= Len(toks) THEN p + 1 ELSE p

IsChar(p, c) == currTok(p).t = "ch" /\ currTok(p).s = c

(***************************************************************************)
(* AST                                                                     *)
(***************************************************************************)
NumberExprAST(Val) == [k |-> "Number", Val |-> Val]
VariableExprAST(Name) == [k |-> "Variable", Name |-> Name]
BinaryExprAST(Op, LHS, RHS) == [k |-> "Binary", Op |-> Op, LHS |-> LHS, RHS |-> RHS]
CallExprAST(Calle, Args) == [k |-> "Call", Calle |-> Calle, Args |-> Args]
ProtoTypeAST(Name, Args) == [k |-> "Proto", Name |-> Name, Args |-> Args]
FunctionAST(Proto, Body) == [k |-> "Function", Proto |-> Proto, Body |-> Body]

(***************************************************************************)
(* Parser.  Every parse operator takes the cursor p and returns the node   *)
(* (Null on failure) and the cursor afterwards.  g gives, for each number  *)
(* token, the indeterminate value its NumberExprAST node is left with.     *)
(***************************************************************************)
Parsed(ast, p) == [ast |-> ast, pos |-> p]

\* a std::vector of nodes or values
Vector(items) == [k |-> "vector", items |-> items]

BinOpPrecedence == ("<" :> 10) @@ ("+" :> 20) @@ ("-" :> 30) @@ ("*" :> 40)

GetTokPrecedence(p) ==
  IF currTok(p).t # "ch" THEN -1
  ELSE IF currTok(p).s \notin DOMAIN BinOpPrecedence THEN -1
  ELSE BinOpPrecedence[currTok(p).s]

\* NumberExprAST(double val) : Val(Val) {} initialises the member from itself:
\* the node's Val is indeterminate, whatever NumVal is
parseNumberExpr(p, g) == Parsed(NumberExprAST(g[p]), getNextToken(p))

RECURSIVE ParseExpression(_, _)
RECURSIVE ParseBinOpRHS(_, _, _, _)
RECURSIVE ParsePrimary(_, _)
RECURSIVE ParseCallArgs(_, _, _)

ParseParenExpr(p, g) ==
  LET V == ParseExpression(getNextToken(p), g)
  IN IF V.ast = Null THEN V
     ELSE IF ~IsChar(V.pos, ")") THEN Parsed(Null, V.pos)
     ELSE Parsed(V.ast, getNextToken(V.pos))

\* the while(true) loop of ParseIdentifierExpr; Args holds the arguments so far
ParseCallArgs(p, Args, g) ==
  LET Arg == ParseExpression(p, g)
  IN IF Arg.ast = Null THEN Arg
     ELSE IF IsChar(Arg.pos, ")") THEN Parsed(Vector(Append(Args, Arg.ast)), Arg.pos)
     ELSE IF ~IsChar(Arg.pos, ",") THEN Parsed(Null, Arg.pos)
     ELSE ParseCallArgs(getNextToken(Arg.pos), Append(Args, Arg.ast), g)

ParseIdentifierExpr(p, g) ==
  LET IdName == currTok(p).s
      p1 == getNextToken(p)
  IN IF ~IsChar(p1, "(") THEN Parsed(VariableExprAST(IdName), p1)
     ELSE LET p2 == getNextToken(p1)
              A == IF IsChar(p2, ")") THEN Parsed(Vector(<<>>), p2)
                   ELSE ParseCallArgs(p2, <<>>, g)
          IN IF A.ast = Null THEN A
             ELSE Parsed(CallExprAST(IdName, A.ast.items), getNextToken(A.pos))

ParsePrimary(p, g) ==
  CASE currTok(p).t = "id" -> ParseIdentifierExpr(p, g)
    [] currTok(p).t = "num" -> parseNumberExpr(p, g)
    [] IsChar(p, "(") -> ParseParenExpr(p, g)
    [] OTHER -> Parsed(Null, p)

\* a mutation of BindsTighter: the comparison is the wrong way round
BindsLooser(TokPrec, NextPrec) == NextPrec < TokPrec

\* if(TokPrec < NextPrec): the pending operator takes RHS as its left operand
BindsTighter(TokPrec, NextPrec) == TokPrec < NextPrec

ParseBinOpRHS(ExprPrec, LHS, p, g) ==
  LET TokPrec == GetTokPrecedence(p)
  IN IF TokPrec < ExprPrec THEN Parsed(LHS, p)
     ELSE LET BinOp == currTok(p).s
              RHS == ParsePrimary(getNextToken(p), g)
          IN IF RHS.ast = Null THEN RHS
             ELSE LET NextPrec == GetTokPrecedence(RHS.pos)
                      RHS2 == IF BindsTighter(TokPrec, NextPrec)
                              THEN ParseBinOpRHS(TokPrec + 1, RHS.ast, RHS.pos, g)
                              ELSE RHS
                  IN IF RHS2.ast = Null THEN RHS2
                     ELSE ParseBinOpRHS(ExprPrec,
                                        BinaryExprAST(BinOp, LHS, RHS2.ast),
                                        RHS2.pos, g)

ParseExpression(p, g) ==
  LET LHS == ParsePrimary(p, g)
  IN IF LHS.ast = Null THEN LHS
     ELSE ParseBinOpRHS(0, LHS.ast, LHS.pos, g)

\* while(getNextToken() == tok_identifier) ArgName.push_back(IdentifierStr);
RECURSIVE ParseArgNames(_, _)
ParseArgNames(p, ArgName) ==
  LET q == getNextToken(p)
  IN IF currTok(q).t = "id" THEN ParseArgNames(q, Append(ArgName, currTok(q).s))
     ELSE [ast |-> ArgName, pos |-> q]

ParsePrototype(p) ==
  IF currTok(p).t # "id" THEN Parsed(Null, p)
  ELSE LET FnName == currTok(p).s
           p1 == getNextToken(p)
       IN IF ~IsChar(p1, "(") THEN Parsed(Null, p1)
          ELSE LET A == ParseArgNames(p1, <<>>)
               IN IF ~IsChar(A.pos, ")") THEN Parsed(Null, A.pos)
                  ELSE Parsed(ProtoTypeAST(FnName, A.ast), getNextToken(A.pos))

ParseDefinition(p, g) ==
  LET Proto == ParsePrototype(getNextToken(p))
  IN IF Proto.ast = Null THEN Proto
     ELSE LET E == ParseExpression(Proto.pos, g)
          IN IF E.ast = Null THEN E
             ELSE Parsed(FunctionAST(Proto.ast, E.ast), E.pos)

ParseExtern(p) == ParsePrototype(getNextToken(p))

ParseTopLevelExpr(p, g) ==
  LET E == ParseExpression(p, g)
  IN IF E.ast = Null THEN E
     ELSE Parsed(FunctionAST(ProtoTypeAST("", <<>>), E.ast), E.pos)

(***************************************************************************)
(* The LLVM module.  A Function object is its identity id, its symbol-     *)
(* table name Name, its argument names args and its basic blocks; a block  *)
(* is its instructions and its terminator (Null when it has none).  A      *)
(* symbol <<N, 0>> is the name N itself (N = "" for an anonymous function) *)
(* and <<N, n>> is N uniquified by the symbol table, "N.n".  Values are    *)
(* constants, folded constant expressions, function arguments, instruction *)
(* results and functions.                                                  *)
(***************************************************************************)
Symbol(N) == <<N, 0>>
ConstantFP(v) == [k |-> "const", v |-> v]
ConstantExpr(op, ops) == [k |-> "fold", op |-> op, ops |-> ops]
Argument(f, i) == [k |-> "arg", f |-> f, i |-> i]
InstValue(f, b, n) == [k |-> "inst", f |-> f, b |-> b, n |-> n]
FunctionValue(f) == [k |-> "fn", f |-> f]
Instruction(op, ops) == [op |-> op, ops |-> ops]
BasicBlock(insts, term) == [insts |-> insts, term |-> term]

IsConstant(v) == v.k \in {"const", "fold"}

\* the Function object with identity f
FunctionOf(M, f) == CHOOSE F \in Range(M) : F.id = f

\* Module::getFunction: the identity of the function whose symbol is Name, 0 if
\* there is none; unnamed values are not in the symbol table
getFunction(M, Name) ==
  IF Name = "" \/ \A F \in Range(M) : F.Name # Symbol(Name) THEN 0
  ELSE (CHOOSE F \in Range(M) : F.Name = Symbol(Name)).id

\* ValueSymbolTable::makeUniqueName for a local value: append the next number
\* of the table's counter until the name is free
RECURSIVE makeUniqueName(_, _, _)
makeUniqueName(base, used, lu) ==
  LET c == base \o ToString(lu + 1)
  IN IF c \in used THEN makeUniqueName(base, used, lu + 1)
     ELSE [name |-> c, lu |-> lu + 1]

\* for (auto &Arg : F->args()) Arg.setName(Args[Idx++]);
RECURSIVE setArgNames(_, _, _, _)
setArgNames(Args, i, named, lu) ==
  IF i > Len(Args) THEN named
  ELSE IF Args[i] \notin Range(named)
       THEN setArgNames(Args, i + 1, Append(named, Args[i]), lu)
       ELSE LET u == makeUniqueName(Args[i], Range(named), lu)
            IN setArgNames(Args, i + 1, Append(named, u.name), u.lu)

\* the state the code generator works on
World(M, nv, id, lu, ub) ==
  [M |-> M, nv |-> nv, nextId |-> id, LastUnique |-> lu, ub |-> ub]

\* ProtoTypeAST::codegen: Function::Create always makes a new Function object;
\* when the name is taken the symbol table gives it a uniquified name
ProtoTypeAST_codegen(Proto, w) ==
  LET taken == getFunction(w.M, Proto.Name) # 0
      Name == IF taken THEN <<Proto.Name, w.LastUnique + 1>>
              ELSE Symbol(Proto.Name)
      F == [id |-> w.nextId, Name |-> Name,
            args |-> setArgNames(Proto.Args, 1, <<>>, 0), blocks |-> <<>>]
  IN [F |-> F.id,
      w |-> [w EXCEPT !.M = Append(w.M, F),
                      !.nextId = w.nextId + 1,
                      !.LastUnique = IF taken THEN w.LastUnique + 1 ELSE w.LastUnique]]

(***************************************************************************)
(* Expression code generation.  c is the builder's state: the scope table  *)
(* nv and the instructions inserted so far into block b of function f.     *)
(***************************************************************************)
Generated(val, c) == [val |-> val, nv |-> c.nv, insts |-> c.insts]

\* IRBuilder::Create*: constant operands are folded and nothing is inserted,
\* otherwise the instruction is appended at the insertion point
Create(op, ops, c, f, b) ==
  IF \A i \in 1..Len(ops) : IsConstant(ops[i])
  THEN Generated(ConstantExpr(op, ops), c)
  ELSE [val |-> InstValue(f, b, Len(c.insts) + 1), nv |-> c.nv,
        insts |-> Append(c.insts, Instruction(op, ops))]

NumberExprAST_codegen(E, c) == Generated(ConstantFP(E.Val), c)

\* NamedValues[Name] inserts a null entry for a name that is not there
VariableExprAST_codegen(E, c) ==
  IF E.Name \in DOMAIN c.nv THEN Generated(c.nv[E.Name], c)
  ELSE [val |-> Null, nv |-> c.nv @@ (E.Name :> Null), insts |-> c.insts]

RECURSIVE Codegen(_, _, _, _, _)
RECURSIVE CodegenArgs(_, _, _, _, _, _, _)

\* BinaryExprAST::codegen: "Value *R = LHS->codegen();" generates the left
\* child a second time; the right child is never generated
BinaryExprAST_codegen(E, c, M, f, b) ==
  LET Lg == Codegen(E.LHS, c, M, f, b)
      Rg == Codegen(E.LHS, Lg, M, f, b)
      LR == <<Lg.val, Rg.val>>
  IN IF LR[1] = Null \/ LR[2] = Null THEN Generated(Null, Rg)
     ELSE CASE E.Op = "+" -> Create("fadd", LR, Rg, f, b)
            [] E.Op = "-" -> Create("fsub", LR, Rg, f, b)
            [] E.Op = "*" -> Create("fmul", LR, Rg, f, b)
            [] E.Op = "<" ->
                 LET cmp == Create("fcmp_ult", LR, Rg, f, b)
                 IN Create("uitofp", <<cmp.val>>, cmp, f, b)
            [] OTHER -> Generated(Null, Rg)

\* the argument loop of CallExprAST::codegen
CodegenArgs(Args, i, ArgsV, c, M, f, b) ==
  IF i > Len(Args) THEN Generated(Vector(ArgsV), c)
  ELSE LET a == Codegen(Args[i], c, M, f, b)
       IN IF a.val = Null THEN a
          ELSE CodegenArgs(Args, i + 1, Append(ArgsV, a.val), a, M, f, b)

CallExprAST_codegen(E, c, M, f, b) ==
  LET CalleeF == getFunction(M, E.Calle)
  IN IF CalleeF = 0 THEN Generated(Null, c)
     ELSE IF Len(FunctionOf(M, CalleeF).args) # Len(E.Args) THEN Generated(Null, c)
     ELSE LET A == CodegenArgs(E.Args, 1, <<>>, c, M, f, b)
          IN IF A.val = Null THEN A
             ELSE [val |-> InstValue(f, b, Len(A.insts) + 1), nv |-> A.nv,
                   insts |-> Append(A.insts,
                                    Instruction("call",
                                                <<FunctionValue(CalleeF)>> \o A.val.items))]

Codegen(E, c, M, f, b) ==
  CASE E.k = "Number" -> NumberExprAST_codegen(E, c)
    [] E.k = "Variable" -> VariableExprAST_codegen(E, c)
    [] E.k = "Binary" -> BinaryExprAST_codegen(E, c, M, f, b)
    [] E.k = "Call" -> CallExprAST_codegen(E, c, M, f, b)

(***************************************************************************)
(* Function code generation                                                *)
(***************************************************************************)
\* whether a function other than f holds an instruction that refers to f
HasUses(M, f) ==
  \E G \in Range(M) : /\ G.id # f
                      /\ \E bi \in 1..Len(G.blocks) :
                           \E I \in Range(G.blocks[bi].insts) :
                             FunctionValue(f) \in Range(I.ops)

\* Function::eraseFromParent: the Function object and all its blocks go
eraseFromParent(M, f) == SelectSeq(M, LAMBDA F : F.id # f)

\* NamedValues.clear(); for (auto &Arg : TheFunction->args()) NamedValues[name] = &Arg;
ScopeOf(F) ==
  [n \in Range(F.args) |-> Argument(F.id, CHOOSE i \in 1..Len(F.args) : F.args[i] = n)]

\* a mutation of RemoveFailed: the function is left in the module
KeepFailed(M, f) == M

\* what FunctionAST::codegen does to a function whose body failed to generate
RemoveFailed(M, f) == eraseFromParent(M, f)

\* FunctionAST::codegen.  FnIR is the function returned (0 for null), scope the
\* scope table the body was generated under, ub whether a function that other
\* functions still refer to was destroyed.
FunctionAST_codegen(FnAST, w) ==
  LET Existing == getFunction(w.M, FnAST.Proto.Name)
      P == IF Existing = 0 THEN ProtoTypeAST_codegen(FnAST.Proto, w)
           ELSE [F |-> Existing, w |-> w]
      f == P.F
      TheFunction == FunctionOf(P.w.M, f)
      BB == Len(TheFunction.blocks) + 1
      scope == ScopeOf(TheFunction)
      RetVal == Codegen(FnAST.Body, [nv |-> scope, insts |-> <<>>], P.w.M, f, BB)
      WithBlock(term) ==
        [i \in 1..Len(P.w.M) |->
           IF P.w.M[i].id = f
           THEN [TheFunction EXCEPT
                   !.blocks = Append(TheFunction.blocks, BasicBlock(RetVal.insts, term))]
           ELSE P.w.M[i]]
  IN IF RetVal.val # Null
     THEN [FnIR |-> f, TheFunction |-> f, scope |-> scope,
           w |-> [P.w EXCEPT !.M = WithBlock(RetVal.val), !.nv = RetVal.nv]]
     ELSE [FnIR |-> 0, TheFunction |-> f, scope |-> scope,
           w |-> [P.w EXCEPT !.M = RemoveFailed(WithBlock(Null), f),
                             !.nv = RetVal.nv,
                             !.ub = HasUses(P.w.M, f)]]

(***************************************************************************)
(* The lexer.  Characters are one-character strings and EOF; gettok's      *)
(* state is LastChar, the characters read so far (cpos), IdentifierStr and *)
(* NumVal.  A number is the pair <<n, d>> standing for n / d.              *)
(***************************************************************************)
EOF == "EOF"

isspace(c) == c \in {" ", "\t", "\n", "\r"}
isalpha(c) == c \in {"a", "c", "e", "f", "n", "r", "t", "u", "x"}
DigitValue == ("0" :> 0) @@ ("1" :> 1) @@ ("2" :> 2) @@ ("3" :> 3) @@ ("4" :> 4)
              @@ ("5" :> 5) @@ ("6" :> 6) @@ ("7" :> 7) @@ ("8" :> 8) @@ ("9" :> 9)
isdigit(c) == c \in DOMAIN DigitValue
isalnum(c) == isalpha(c) \/ isdigit(c)

Lexer(lc, cp, id, nv) == [LastChar |-> lc, cpos |-> cp, IdentifierStr |-> id, NumVal |-> nv]

\* LastChar = getchar()
getchar(L) ==
  IF L.cpos < Len(chars)
  THEN [L EXCEPT !.LastChar = chars[L.cpos + 1], !.cpos = L.cpos + 1]
  ELSE [L EXCEPT !.LastChar = EOF]

\* while(isspace(LastChar)) LastChar = getchar();
RECURSIVE SkipSpace(_)
SkipSpace(L) == IF isspace(L.LastChar) THEN SkipSpace(getchar(L)) ELSE L

\* while(isalnum(LastChar = getchar())) IdentifierStr += LastChar;
RECURSIVE ReadIdentifier(_)
ReadIdentifier(L) ==
  LET L1 == getchar(L)
  IN IF isalnum(L1.LastChar)
     THEN ReadIdentifier([L1 EXCEPT !.IdentifierStr = Append(L1.IdentifierStr, L1.LastChar)])
     ELSE L1

\* do { NumStr += LastChar; LastChar = getchar(); } while(isdigit(LastChar) || LastChar == '.');
RECURSIVE ReadNumber(_, _)
ReadNumber(L, NumStr) ==
  LET S == Append(NumStr, L.LastChar)
      L1 == getchar(L)
  IN IF isdigit(L1.LastChar) \/ L1.LastChar = "."
     THEN ReadNumber(L1, S)
     ELSE [L |-> L1, NumStr |-> S]

\* the longest run of digits of S from index i on
RECURSIVE DigitRun(_, _)
DigitRun(S, i) ==
  IF i <= Len(S) /\ isdigit(S[i]) THEN <<S[i]>> \o DigitRun(S, i + 1) ELSE <<>>

RECURSIVE Decimal(_, _)
Decimal(D, acc) == IF D = <<>> THEN acc ELSE Decimal(Tail(D), 10 * acc + DigitValue[Head(D)])

RECURSIVE Pow10(_)
Pow10(n) == IF n = 0 THEN 1 ELSE 10 * Pow10(n - 1)

RECURSIVE Reduce(_, _)
Reduce(n, d) == IF d > 1 /\ n % 10 = 0 THEN Reduce(n \div 10, d \div 10) ELSE <<n, d>>

\* strtod on a string of digits and points: the value of the longest prefix
\* that is a decimal numeral, 0 when there is none
strtod(S) ==
  LET I == DigitRun(S, 1)
      F == IF Len(I) < Len(S) /\ S[Len(I) + 1] = "." THEN DigitRun(S, Len(I) + 2) ELSE <<>>
  IN IF I = <<>> /\ F = <<>> THEN <<0, 1>>
     ELSE Reduce(Decimal(I \o F, 0), Pow10(Len(F)))

\* while(LastChar != '\n' || LastChar != EOF || LastChar != '\r')
CommentGoesOn(c) == c # "\n" \/ c # EOF \/ c # "\r"

\* gettok up to its return, or up to its comment loop: tok is the token
\* returned, "comment" when the do-while of the comment skip has been entered
gettokFrom(L0) ==
  LET L == SkipSpace(L0)
  IN IF isalpha(L.LastChar)
     THEN LET L1 == ReadIdentifier([L EXCEPT !.IdentifierStr = <<L.LastChar>>])
          IN [L |-> L1,
              tok |-> CASE L1.IdentifierStr = <<"f", "u", "n", "c">> -> "tok_func"
                        [] L1.IdentifierStr = <<"e", "x", "t", "e", "r", "n">> -> "tok_extern"
                        [] OTHER -> "tok_identifier"]
     ELSE IF isdigit(L.LastChar) \/ L.LastChar = "."
     THEN LET R == ReadNumber(L, <<>>)
          IN [L |-> [R.L EXCEPT !.NumVal = strtod(R.NumStr)], tok |-> "tok_number"]
     ELSE IF L.LastChar = "#" THEN [L |-> L, tok |-> "comment"]
     ELSE IF L.LastChar = EOF THEN [L |-> L, tok |-> "tok_eof"]
     ELSE [L |-> getchar(L), tok |-> L.LastChar]

TheLexer == Lexer(LastChar, cpos, IdentifierStr, NumVal)

Deliver(R) ==
  /\ LastChar' = R.L.LastChar
  /\ cpos' = R.L.cpos
  /\ IdentifierStr' = R.L.IdentifierStr
  /\ NumVal' = R.L.NumVal
  /\ IF R.tok = "comment"
     THEN lexpc' = "comment" /\ lexTok' = lexTok
     ELSE lexpc' = "idle" /\ lexTok' = R.tok

\* a call of gettok, up to its return or to its comment loop
GetTok ==
  /\ lexpc = "idle"
  /\ \E R \in {gettokFrom(TheLexer)} : Deliver(R)
  /\ UNCHANGED <<chars, parseVars>>

\* one iteration of the do-while that skips a comment, and what follows the
\* loop when it ends
CommentSkip ==
  /\ lexpc = "comment"
  /\ \E L \in {getchar(TheLexer)} :
       IF CommentGoesOn(L.LastChar)
       THEN Deliver([L |-> L, tok |-> "comment"])
       ELSE IF L.LastChar # EOF THEN \E R \in {gettokFrom(L)} : Deliver(R)
       ELSE Deliver([L |-> L, tok |-> "tok_eof"])
  /\ UNCHANGED <<chars, parseVars>>

MaxChars == 4

LexAlphabet == {"f", "1", ".", "#", " ", "\n", "\r", "+"}

LexInit ==
  /\ chars \in UNION {[1..n -> LexAlphabet] : n \in 0..MaxChars}
  /\ cpos = 0
  /\ LastChar = " "
  /\ IdentifierStr = <<>>
  /\ NumVal = <<0, 1>>
  /\ lexpc = "idle"
  /\ lexTok = "none"
  /\ toks = <<>>
  /\ pos = 1
  /\ TheModule = <<>>
  /\ NamedValues = <<>>
  /\ nextId = 1
  /\ LastUnique = 0
  /\ pc = "lex"
  /\ last = Null

LexNext == GetTok \/ CommentSkip

LexSpec == LexInit /\ [][LexNext]_vars

\* C8: the comment skip consumes characters only up to the first '\n', '\r' or
\* end of file: gettok is never inside the skip loop, about to read on, with
\* one of these as the character it read last.
C8_CommentSkipStopsAtLineEnd ==
  lexpc = "comment" => LastChar \notin {"\n", "\r", EOF}

(***************************************************************************)
(* The driver.  One action is one iteration of MainLoop's while(true).     *)
(***************************************************************************)
\* what an iteration did: the form handled, the cursor it started at, the node
\* parsed (Null when the parse failed), the function codegen returned (FnIR, 0
\* for null) as it was printed (fn), and the function and scope table the body
\* was generated under
Handled(form, start, ast, FnIR, fn, scope, TheFunction) ==
  [form |-> form, start |-> start, ast |-> ast, FnIR |-> FnIR, fn |-> fn,
   scope |-> scope, TheFunction |-> TheFunction]

TheWorld == World(TheModule, NamedValues, nextId, LastUnique, FALSE)

\* the indeterminate values the NumberExprAST nodes made from the number
\* tokens at from .. to may hold
Doubles == {0, 5}
Indeterminate(from, to) == [{i \in from..to : currTok(i).t = "num"} -> Doubles]

\* the extent of a parse does not depend on the values of its literals
Zeros == [i \in 1..Len(toks) |-> 0]

\* destroying a function that is still referred to breaks LLVM's contract for
\* Value: a build with assertions stops the process there ("Uses remain when a
\* value is destroyed!"), a build without them goes on with a dangling use
AfterCodegen(w) == IF w.ub THEN {"loop", "aborted"} ELSE {"loop"}

Install(w) ==
  /\ TheModule' = w.M
  /\ NamedValues' = w.nv
  /\ nextId' = w.nextId
  /\ LastUnique' = w.LastUnique

\* case tok_eof: return;
MainLoopEof ==
  /\ pc = "loop"
  /\ currTok(pos).t = "eof"
  /\ pc' = "done"
  /\ last' = Handled("eof", pos, Null, 0, Null, <<>>, 0)
  /\ UNCHANGED <<toks, pos, TheModule, NamedValues, nextId, LastUnique>>
  /\ UNCHANGED lexVars

\* case ';': getNextToken();
MainLoopSemicolon ==
  /\ pc = "loop"
  /\ IsChar(pos, ";")
  /\ pos' = getNextToken(pos)
  /\ last' = Handled("semicolon", pos, Null, 0, Null, <<>>, 0)
  /\ UNCHANGED <<toks, TheModule, NamedValues, nextId, LastUnique, pc>>
  /\ UNCHANGED lexVars

HandleDefinition ==
  /\ pc = "loop"
  /\ currTok(pos).t = "func"
  /\ \E g \in Indeterminate(pos, ParseDefinition(pos, Zeros).pos) :
     \E FnAST \in {ParseDefinition(pos, g)} :
       IF FnAST.ast # Null
          THEN \E G \in {FunctionAST_codegen(FnAST.ast, TheWorld)} :
                  /\ Install(G.w)
                  /\ pos' = FnAST.pos
                  /\ pc' \in AfterCodegen(G.w)
                  /\ last' = Handled("definition", pos, FnAST.ast, G.FnIR,
                                     IF G.FnIR = 0 THEN Null
                                     ELSE FunctionOf(G.w.M, G.FnIR),
                                     G.scope, G.TheFunction)
          ELSE /\ pos' = getNextToken(FnAST.pos)
               /\ last' = Handled("definition", pos, Null, 0, Null, <<>>, 0)
               /\ UNCHANGED <<TheModule, NamedValues, nextId, LastUnique, pc>>
  /\ UNCHANGED toks
  /\ UNCHANGED lexVars

HandleExtern ==
  /\ pc = "loop"
  /\ currTok(pos).t = "extern"
  /\ \E ProtoAST \in {ParseExtern(pos)} :
        IF ProtoAST.ast # Null
        THEN \E G \in {ProtoTypeAST_codegen(ProtoAST.ast, TheWorld)} :
                /\ Install(G.w)
                /\ pos' = ProtoAST.pos
                /\ last' = Handled("extern", pos, ProtoAST.ast, G.F,
                                   FunctionOf(G.w.M, G.F), <<>>, 0)
        ELSE /\ pos' = getNextToken(ProtoAST.pos)
             /\ last' = Handled("extern", pos, Null, 0, Null, <<>>, 0)
             /\ UNCHANGED <<TheModule, NamedValues, nextId, LastUnique>>
  /\ UNCHANGED <<toks, pc>>
  /\ UNCHANGED lexVars

HandleTopLevelExpression ==
  /\ pc = "loop"
  /\ currTok(pos).t \notin {"eof", "func", "extern"}
  /\ ~IsChar(pos, ";")
  /\ \E g \in Indeterminate(pos, ParseTopLevelExpr(pos, Zeros).pos) :
     \E FnAST \in {ParseTopLevelExpr(pos, g)} :
       IF FnAST.ast # Null
          THEN \E G \in {FunctionAST_codegen(FnAST.ast, TheWorld)} :
               \* Remove the anonymous expression.
               \E w \in {IF G.FnIR = 0 THEN G.w
                         ELSE [G.w EXCEPT !.M = eraseFromParent(G.w.M, G.FnIR),
                                          !.ub = HasUses(G.w.M, G.FnIR)]} :
                  /\ Install(w)
                  /\ pos' = FnAST.pos
                  /\ pc' \in AfterCodegen(w)
                  /\ last' = Handled("expression", pos, FnAST.ast, G.FnIR,
                                     IF G.FnIR = 0 THEN Null
                                     ELSE FunctionOf(G.w.M, G.FnIR),
                                     G.scope, G.TheFunction)
          ELSE /\ pos' = getNextToken(FnAST.pos)
               /\ last' = Handled("expression", pos, Null, 0, Null, <<>>, 0)
               /\ UNCHANGED <<TheModule, NamedValues, nextId, LastUnique, pc>>
  /\ UNCHANGED toks
  /\ UNCHANGED lexVars

(***************************************************************************)
(* Inputs: token streams made of at most MaxForms top-level forms, well-   *)
(* formed and malformed, and the streams "a op1 b op2 c".                  *)
(***************************************************************************)
MaxForms == 3

LP == tok_char("(")
RP == tok_char(")")

Forms ==
  { <<tok_func, tok_identifier("id"), LP, tok_identifier("x"), RP, tok_identifier("x")>>,
    <<tok_func, tok_identifier("id"), LP, tok_identifier("x"), RP, tok_identifier("zz")>>,
    <<tok_func, tok_identifier("id"), LP, tok_identifier("x"), tok_identifier("y"), RP,
      tok_identifier("x"), tok_char("-"), tok_identifier("y")>>,
    <<tok_func, tok_identifier("id"), LP, tok_identifier("x"), RP,
      tok_identifier("x"), tok_char("+"), tok_identifier("zz")>>,
    <<tok_func, tok_identifier("g"), LP, tok_identifier("y"), RP,
      tok_identifier("id"), LP, tok_identifier("y"), RP>>,
    <<tok_extern, tok_identifier("id"), LP, tok_identifier("x"), RP>>,
    <<tok_extern, tok_identifier("id"), LP, tok_identifier("a"), tok_identifier("b"), RP>>,
    <<tok_func, tok_identifier("id"), LP, tok_identifier("x"), RP,
      tok_identifier("x"), tok_char("<"), tok_identifier("x")>>,
    <<tok_identifier("id"), LP, tok_number(5), RP>>,
    <<tok_identifier("id"), LP, tok_number(5), tok_char(","), tok_number(5), RP>>,
    <<LP, tok_number(5), RP>>,
    <<tok_identifier("x")>>,
    <<tok_char(";")>>,
    <<tok_func, LP>>,
    <<tok_extern, tok_identifier("id"), tok_identifier("x")>>,
    <<RP>> }

\* the token stream of a sequence of forms
RECURSIVE Concat(_)
Concat(fs) == IF fs = <<>> THEN <<>> ELSE Head(fs) \o Concat(Tail(fs))

Programs == {Concat(fs) : fs \in UNION {[1..n -> Forms] : n \in 0..MaxForms}}

Operators == DOMAIN BinOpPrecedence

Operand(i) == {tok_identifier(<<"a", "b", "c">>[i]), tok_number(i)}

ExprStreams ==
  { <<a, tok_char(op1), b, tok_char(op2), c>> :
      a \in Operand(1), op1 \in Operators, b \in Operand(2),
      op2 \in Operators, c \in Operand(3) }

LexIdle ==
  /\ chars = <<>>
  /\ cpos = 0
  /\ LastChar = " "
  /\ IdentifierStr = <<>>
  /\ NumVal = <<0, 1>>
  /\ lexpc = "idle"
  /\ lexTok = "none"

\* main(): getNextToken() reads the first token, InitializeModule() makes an
\* empty module
Init ==
  /\ toks \in Programs \cup ExprStreams
  /\ pos = 1
  /\ TheModule = <<>>
  /\ NamedValues = <<>>
  /\ nextId = 1
  /\ LastUnique = 0
  /\ pc = "loop"
  /\ last = Handled("init", 0, Null, 0, Null, <<>>, 0)
  /\ LexIdle

Next ==
  \/ MainLoopEof
  \/ MainLoopSemicolon
  \/ HandleDefinition
  \/ HandleExtern
  \/ HandleTopLevelExpression

Spec == Init /\ [][Next]_vars

(***************************************************************************)
(* Properties of the parser, the code generator and the driver             *)
(***************************************************************************)
\* the functions of M registered under the name N
Registered(M, N) == {F \in Range(M) : F.Name = Symbol(N)}

\* the last iteration ran FunctionAST::codegen on a parsed definition
RanFunctionCodegen ==
  last.form \in {"definition", "expression"} /\ last.ast # Null

\* C1: when FunctionAST::codegen succeeds for a name that already has a
\* function with a body, the module afterwards holds exactly one function of
\* that name, and its body is one entry block ending in one return that holds
\* only the new definition's code.
C1_RedefinitionOverwritesBody ==
  [][(/\ last'.form = "definition"
      /\ last'.FnIR # 0
      /\ \E F \in Registered(TheModule, last'.ast.Proto.Name) : F.blocks # <<>>)
     => (/\ Cardinality(Registered(TheModule', last'.ast.Proto.Name)) = 1
         /\ \A F \in Registered(TheModule', last'.ast.Proto.Name) :
              /\ Len(F.blocks) = 1
              /\ F.blocks[1].term # Null)]_vars

\* C2: ProtoTypeAST::codegen for a name already present in the module creates
\* no new function object, so the module never holds two functions that come
\* from the same source-level name.
C2_OneFunctionPerSourceName ==
  \A F, G \in Range(TheModule) : F.Name[1] = G.Name[1] => F.id = G.id

\* C3: a function that was declared or defined stays registered after every
\* later top-level form, with its declaration unchanged and, unless that form
\* is a definition of its name that succeeded, its body unchanged.
C3_RegisteredFunctionsPersist ==
  [][\A F \in Range(TheModule) :
       \E G \in Range(TheModule') :
         /\ G.id = F.id
         /\ G.Name = F.Name
         /\ G.args = F.args
         /\ \/ G.blocks = F.blocks
            \/ last'.form = "definition" /\ last'.FnIR = F.id]_vars

\* C4: after FunctionAST::codegen returned null because the body failed to
\* generate, no function registered under the definition's name (the empty name
\* for the top-level-expression wrapper) has an empty body or a block without a
\* terminating return.
C4_FailedBodyLeavesNoEmptyFunction ==
  (RanFunctionCodegen /\ last.FnIR = 0)
    => \A F \in Range(TheModule) :
         F.Name = Symbol(last.ast.Proto.Name)
           => /\ F.blocks # <<>>
              /\ \A b \in 1..Len(F.blocks) : F.blocks[b].term # Null

\* a definition whose body failed has been handled and functions remain
C4_Witness ==
  /\ last.form = "definition"
  /\ last.ast # Null
  /\ last.FnIR = 0
  /\ TheModule # <<>>

\* the instruction BinaryExprAST::codegen is to emit for Op
OpCode(Op) == CASE Op = "+" -> "fadd" [] Op = "-" -> "fsub" [] Op = "*" -> "fmul"

\* C5: for a definition whose body is BinaryOp(op, L, R) with L and R variable
\* references and op one of + - *, codegen emits the instruction for op on
\* (value of L, value of R) when both are in scope, and returns null, emitting
\* nothing, when either is unknown.
C5_BinaryUsesBothOperands ==
  (/\ last.form = "definition"
   /\ last.ast # Null
   /\ last.ast.Body.k = "Binary"
   /\ last.ast.Body.Op \in {"+", "-", "*"}
   /\ last.ast.Body.LHS.k = "Variable"
   /\ last.ast.Body.RHS.k = "Variable")
    => LET L == last.ast.Body.LHS.Name
           R == last.ast.Body.RHS.Name
       IN IF L \in DOMAIN last.scope /\ R \in DOMAIN last.scope
          THEN /\ last.FnIR # 0
               /\ last.fn.blocks[Len(last.fn.blocks)].insts
                    = <<Instruction(OpCode(last.ast.Body.Op),
                                    <<last.scope[L], last.scope[R]>>)>>
          ELSE last.FnIR = 0

\* the tokens at s .. s+4 are "a op1 b op2 c" with a, b, c single-token
\* primaries, and the expression ends there
IsChain(s) ==
  /\ \A i \in {s, s + 2, s + 4} : currTok(i).t \in {"id", "num"}
  /\ \A i \in {s + 1, s + 3} : GetTokPrecedence(i) > 0
  /\ GetTokPrecedence(s + 5) < 0
  /\ ~IsChar(s + 5, "(")

\* a tree with the values of its number literals left out
RECURSIVE Shape(_)
Shape(E) ==
  CASE E.k = "Number" -> [k |-> "Number"]
    [] E.k = "Variable" -> E
    [] E.k = "Binary" -> BinaryExprAST(E.Op, Shape(E.LHS), Shape(E.RHS))
    [] E.k = "Call" -> CallExprAST(E.Calle, [i \in 1..Len(E.Args) |-> Shape(E.Args[i])])

Leaf(i) ==
  IF currTok(i).t = "num" THEN [k |-> "Number"] ELSE VariableExprAST(currTok(i).s)

\* C6: for a token sequence "a op1 b op2 c" ParseExpression returns
\* a op1 (b op2 c) exactly when prec(op2) > prec(op1), and (a op1 b) op2 c
\* otherwise.
C6_PrecedenceClimbing ==
  (last.form = "expression" /\ IsChain(last.start))
    => LET s == last.start
           op1 == currTok(s + 1).s
           op2 == currTok(s + 3).s
       IN /\ last.ast # Null
          /\ Shape(last.ast.Body) =
               IF BinOpPrecedence[op2] > BinOpPrecedence[op1]
               THEN BinaryExprAST(op1, Leaf(s),
                                  BinaryExprAST(op2, Leaf(s + 2), Leaf(s + 4)))
               ELSE BinaryExprAST(op2,
                                  BinaryExprAST(op1, Leaf(s), Leaf(s + 2)),
                                  Leaf(s + 4))

\* "1-2-3" has been parsed
C6_Witness ==
  /\ last.form = "expression"
  /\ IsChain(last.start)
  /\ currTok(last.start).t = "num"
  /\ currTok(last.start + 1).s = "-"
  /\ currTok(last.start + 3).s = "-"
  /\ last.ast # Null

\* C7: for the top-level expression "f ( n )", with n a number token and f a
\* function of one parameter, the NumberLiteral node carries the value the
\* lexer produced for n, and the call generated has exactly one argument, the
\* constant of that value.
C7_LiteralCarriesLexedValue ==
  (/\ last.form = "expression"
   /\ currTok(last.start).t = "id"
   /\ IsChar(last.start + 1, "(")
   /\ currTok(last.start + 2).t = "num"
   /\ IsChar(last.start + 3, ")")
   /\ GetTokPrecedence(last.start + 4) < 0
   /\ \E F \in Registered(TheModule, currTok(last.start).s) : Len(F.args) = 1)
    => /\ last.ast # Null
       /\ last.ast.Body.k = "Call"
       /\ last.ast.Body.Args = <<NumberExprAST(currTok(last.start + 2).v)>>
       /\ last.FnIR # 0
       /\ \A F \in Registered(TheModule, currTok(last.start).s) :
            last.fn.blocks[1].insts =
              <<Instruction("call",
                            <<FunctionValue(F.id),
                              ConstantFP(currTok(last.start + 2).v)>>)>>

\* C9: the scope table the body of a function definition is generated under
\* holds exactly the parameter names of the definition's prototype, the i-th
\* bound to the i-th argument of the function being generated.
C9_ScopeIsThePrototypesParameters ==
  (last.form = "definition" /\ last.ast # Null)
    => LET Args == last.ast.Proto.Args
       IN /\ DOMAIN last.scope = Range(Args)
          /\ \A i \in 1..Len(Args) :
               last.scope[Args[i]] = Argument(last.TheFunction, i)

\* C10: every iteration of MainLoop either returns on the end-of-input token
\* or consumes at least one token and resumes the loop: no parse or codegen
\* failure ends the session.
C10_EveryIterationProgresses ==
  [][pc = "loop"
     => IF currTok(pos).t = "eof" THEN pc' = "done"
        ELSE pos' > pos /\ pc' = "loop"]_vars

====
